---- MODULE Spec2Model ----
(***************************************************************************)
(* Model of the news crawlers of webScrapping/crawlers: nine publisher     *)
(* classes (ABC, ElConfidencial, ElDiario, LaRazon, ElMundo, ElPais,       *)
(* InfoLibre, OkDiario, ElPlural), each with a crawl() that discovers      *)
(* article links on seed pages, fetches every article of the truncated     *)
(* list, extracts title, body and date, gates the candidate and appends a  *)
(* record.                                                                 *)
(*                                                                         *)
(* Abstractions.  A text is its length together with the features the      *)
(* cleaning helpers act on (collapsible padding, isolated ellipsis         *)
(* tokens).  Time is counted in hours from 00:00 UTC of day 0; a calendar  *)
(* date is the day number h \div 24.  A link is a record of the features   *)
(* the URL classifiers read.  A fetched page is a record of the elements   *)
(* the extractors read.                                                    *)
(***************************************************************************)
EXTENDS Integers, Sequences, FiniteSets, TLC

VARIABLES
    pub,        \* the crawler class whose crawl() runs
    max_news,   \* crawl(max_news=...)
    now,        \* the wall clock, hours since day 0 00:00 UTC
    pc,         \* "seeding" | "fetching" | "done" (returned) | "raised"
    sec,        \* index of the next seed of SECTION_URLS to fetch
    urls,       \* crawl's local list urls (pairs in ElPais)
    seen,       \* crawl's local set seen
    idx,        \* number of entries of the truncated list already taken
    data,       \* crawl's local result list (data / out / results)
    requests,   \* every session.get issued so far, in order
    sleeps,     \* number of time.sleep(sleep_s) calls so far
    last,       \* the response crawl dealt with last, and what it held
    call        \* the helper called on its own last: name, arguments, result

vars == <<pub, max_news, now, pc, sec, urls, seen, idx, data, requests, sleeps, last, call>>

(***************************************************************************)
(* Bounds of the model.                                                    *)
(***************************************************************************)
MaxNewsArg == 2     \* max_news is drawn from 0..MaxNewsArg
MaxAnchors == 2     \* anchors scanned on one seed page
MaxSeeds   == 2     \* seeds of SECTION_URLS that are modelled
MaxCorpus  == 3     \* records of a corpus file handed to clean_json.py
MaxCalls   == 2     \* successive calls of the classifier on one href
MaxTokens  == 4     \* tokens of a text handed to _strip_paywall_cuts

Pubs == {"ABC", "ElConfidencial", "ElDiario", "LaRazon", "ElMundo",
         "ElPais", "InfoLibre", "OkDiario", "ElPlural"}

\* Crawlers that walk the tuple SECTION_URLS; the others fetch self.url only.
MultiSeed == {"ABC", "ElConfidencial", "ElDiario", "LaRazon", "ElMundo", "ElPais"}

Min(a, b) == IF a <= b THEN a ELSE b

\* len(SECTION_URLS) of each class, capped by MaxSeeds.
SECTION_URLS(p) ==
    LET n == CASE p = "ElMundo" -> 2
               [] p \in MultiSeed -> 4
               [] OTHER -> 1
    IN  1..Min(n, MaxSeeds)

(***************************************************************************)
(* Time.                                                                   *)
(***************************************************************************)
Day(h) == h \div 24

\* ZoneInfo("Europe/Madrid") in winter (CET); timezone.utc is offset 0.
UtcOffset(tz) == IF tz = "Europe/Madrid" THEN 1 ELSE 0

\* The instants at which a crawl may read the clock: 23:00 UTC of day 1
\* (00:00 of day 2 in Madrid) and 12:00 UTC of day 2.
NowSet == {47, 60}

(***************************************************************************)
(* Date strings.  A date string found in a page is a record                *)
(*   k = "absent"  no such attribute / key, or an empty string             *)
(*   k = "bad"     text that datetime.fromisoformat rejects                *)
(*   k = "naive"   ISO text without offset, wall clock w                   *)
(*   k = "Z"       ISO text ending in Z, wall clock w (UTC)                *)
(*   k = "off"     ISO text with numeric offset off, wall clock w          *)
(* The ISO strings the helpers return use k = "empty" for "", and          *)
(* k = "OverflowError" / "ValueError" stands for that exception leaving    *)
(* the helper.                                                             *)
(***************************************************************************)
DS(k, w, off) == [k |-> k, w |-> w, off |-> off]
Absent    == DS("absent", 0, 0)
BadStr    == DS("bad", 0, 0)
EmptyIso  == DS("empty", 0, 0)
Overflow  == DS("OverflowError", 0, 0)

ValueErr   == DS("ValueError", 0, 0)

Raises(iso) == iso.k \in {"OverflowError", "ValueError"}

\* A normalization that keeps the wall clock of the string and drops its offset.
normalize_dt_wall(dt) ==
    CASE dt.k \in {"Z", "off"} -> DS("Z", dt.w, 0)
      [] dt.k = "naive" -> DS("naive", dt.w, 0)
      [] OTHER -> EmptyIso

\* ABC._normalize_dt, ElConfidencial._normalize_dt, LaRazon._normalize_dt,
\* ElDiario._normalize_iso: the four bodies are the same.
\* fromisoformat is inside the try (ValueError -> ""); astimezone is not, and
\* raises OverflowError when the UTC value falls before datetime.min (hour 0).
normalize_dt(dt) ==
    CASE dt.k \in {"bad", "absent", "empty"} -> EmptyIso
      [] dt.k = "naive" -> DS("naive", dt.w, 0)
      [] dt.k \in {"Z", "off"} ->
            LET off == IF dt.k = "Z" THEN 0 ELSE dt.off
                utc == dt.w - off
            IN  IF utc < 0 THEN Overflow ELSE DS("Z", utc, 0)
      [] OTHER -> EmptyIso

\* datetime.fromisoformat(dt_iso.replace("Z", "+00:00")) succeeds
Parses(iso) == iso.k \in {"naive", "Z"}

\* The timezone in which each _is_today reads "today".
TodayZone(p) == IF p = "LaRazon" THEN "Europe/Madrid" ELSE "UTC"

\* A verdict that reads every date on the UTC calendar, whatever the crawler.
is_today_utc_mut(p, iso, t) ==
    Parses(iso) /\ Day(iso.w) = Day(t)

\* ABC / ElConfidencial / ElDiario: d.date() == datetime.now(timezone.utc).date()
\* LaRazon: naive -> replace(tzinfo=madrid), aware -> astimezone(madrid);
\*          d.date() == datetime.now(madrid).date()
is_today(p, iso, t) ==
    IF ~Parses(iso) THEN FALSE
    ELSE IF p = "LaRazon"
         THEN LET o == UtcOffset("Europe/Madrid")
                  d == IF iso.k = "naive" THEN iso.w ELSE iso.w + o
              IN  Day(d) = Day(t + o)
         ELSE Day(iso.w) = Day(t)

\* A dd-mm-yyyy string is the calendar day it spells.
DDMMYYYY(d) == [fmt |-> "dd-mm-yyyy", day |-> d]
EmptyDate   == [fmt |-> "", day |-> 0]

\* _iso_to_ddmmyyyy: strftime of the parsed value as it stands (UTC for a
\* Z string, the wall clock for a naive one); "" when parsing fails.
iso_to_ddmmyyyy(iso) ==
    IF Parses(iso) THEN DDMMYYYY(Day(iso.w)) ELSE EmptyDate

(***************************************************************************)
(* Texts.  len is len(text); pad counts the characters _clean_text         *)
(* removes (runs of blanks, blank lines, surrounding whitespace); cuts     *)
(* counts the isolated " ... " tokens, each of which _strip_paywall_cuts   *)
(* replaces by one blank (4 characters fewer).                             *)
(***************************************************************************)
Text(n, pad, cuts) == [len |-> n, pad |-> pad, cuts |-> cuts]
NoText == Text(0, 0, 0)

clean_text(t) == Text(t.len - t.pad, 0, t.cuts)

strip_paywall_cuts(t) ==
    IF t.len = 0 THEN t ELSE Text(t.len - 4 * t.cuts, t.pad, 0)

(***************************************************************************)
(* Links.  An href is a record of what the classifiers read:               *)
(*   pre   ""            an ordinary href                                  *)
(*         "empty"       href="" (or blank)                                *)
(*         "#", "javascript:"   the two rejected prefixes                  *)
(*         "["           an href urljoin / urlparse reject with ValueError *)
(*                       ("//[x": Invalid IPv6 URL)                        *)
(*   host  "rel"         no host: resolved against self.url                *)
(*         "www", "bare" the publisher's www host / its bare domain        *)
(*         "like"        a foreign host that contains the domain string    *)
(*         "other"       any other host                                    *)
(*   deny  "none" | "prefix" | "inside": where a denied path substring is  *)
(*   art   the path ends in the id / suffix shape of the publisher         *)
(*   date  the date segment of the path: k = "none" | "bad" | "ok", d day  *)
(*   id    the rest of the path                                            *)
(*   svc   the URL holds LaRazon's service marker "-p7m_" / "_p7m_"        *)
(* urljoin(self.url, href) is the same record with the host resolved.      *)
(***************************************************************************)
UD(k, d) == [k |-> k, d |-> d]
NoUrlDate == UD("none", 0)

Href(pre, host, deny, art, date, id, svc) ==
    [pre |-> pre, host |-> host, deny |-> deny, art |-> art, date |-> date, id |-> id,
     svc |-> svc]

\* Host of self.url, the base every href is resolved against: the host of the
\* class's SECTION_URLS; okdiario.com for OkDiario, whose classifier accepts
\* no other netloc.
BaseHost(p) == IF p \in {"ElPais", "OkDiario"} THEN "bare" ELSE "www"

urljoin(p, h) ==
    [host |-> IF h.host = "rel" THEN BaseHost(p) ELSE h.host,
     deny |-> h.deny, art |-> h.art, date |-> h.date, id |-> h.id, svc |-> h.svc]

\* urljoin(self.url, href) raises ValueError
UrlRaises(h) == h.pre = "["

\* "<domain>" in parsed.netloc; OkDiario: p.netloc.lower() == "okdiario.com"
HostOk(p, u) ==
    IF p = "OkDiario" THEN u.host = "bare"
    ELSE u.host \in {"www", "bare", "like"}

\* A deny test that looks at the start of the path only, in every class.
Denied_prefix_only(p, u) == u.deny = "prefix"

\* The deny lists: any(d in path ...) everywhere but in InfoLibre, which
\* tests path.startswith(...).
Denied(p, u) ==
    IF p = "InfoLibre" THEN u.deny = "prefix"
    ELSE u.deny \in {"prefix", "inside"}

\* ARTICLE_RE.search(path).  The patterns of ABC, ElConfidencial, LaRazon,
\* ElMundo and ElPais hold a date of digits; those of ElDiario (.html),
\* InfoLibre (_n_n.html), OkDiario and ElPlural (trailing id) do not.
MatchesArticleRe(p, u) ==
    IF p \in {"ABC", "ElConfidencial", "LaRazon", "ElMundo", "ElPais"}
    THEN u.art /\ u.date.k # "none"
    ELSE u.art

\* A classifier that reads the clock: it accepts the URLs dated today only.
is_article_url_today(p, h) ==
    /\ h.pre = ""
    /\ HostOk(p, urljoin(p, h))
    /\ ~Denied(p, urljoin(p, h))
    /\ MatchesArticleRe(p, urljoin(p, h))
    /\ h.date.d = Day(now)

\* A classifier that accepts every href that urljoin accepts.
is_article_url_any(p, h) == h.pre = ""

\* _is_valid_article_url / _is_article_url / _is_article, for an href that
\* urljoin accepts.
is_article_url(p, h) ==
    /\ h.pre = ""
    /\ HostOk(p, urljoin(p, h))
    /\ ~Denied(p, urljoin(p, h))
    /\ MatchesArticleRe(p, urljoin(p, h))

(***************************************************************************)
(* Seed pages.  A page is the sequence of its anchors in document order,   *)
(* each [href, region]:                                                    *)
(*   "A"  an anchor the article-block selector of the class reaches        *)
(*        (article a[href]; the first link of an <article>; InfoLibre's    *)
(*        aside.ni-subtitle; OkDiario's section.rowContent before the      *)
(*        "OK AL DIA" banner)                                              *)
(*   "H"  an anchor inside a heading (h2 a[href], h3 a[href]; InfoLibre's  *)
(*        h1/h2.ni-title)                                                  *)
(*   "O"  an anchor elsewhere on the page                                  *)
(***************************************************************************)
RECURSIVE Filter(_, _)
Filter(s, regions) ==
    IF s = <<>> THEN <<>>
    ELSE IF s[1].region \in regions
         THEN <<s[1].href>> \o Filter(Tail(s), regions)
         ELSE Filter(Tail(s), regions)

\* The hrefs a class's link scan visits, in the order it visits them.
ScanOrder(p, page) ==
    CASE p \in {"ABC", "ElDiario", "LaRazon"} -> Filter(page, {"A", "H"})
      [] p = "ElConfidencial" -> Filter(page, {"A"}) \o Filter(page, {"H"})
      [] p = "InfoLibre"      -> Filter(page, {"H"}) \o Filter(page, {"A"})
      [] p \in {"ElMundo", "ElPais", "OkDiario"} -> Filter(page, {"A"})
      [] OTHER -> Filter(page, {"A", "H", "O"})

\* The system's local timezone, read by ElPais through datetime.now().
SystemZone == "Europe/Madrid"

\* A URL date that is formatted whatever the day it names.
date_ddmmyyyy_from_url(u, t) ==
    IF u.date.k = "ok" THEN DDMMYYYY(u.date.d) ELSE EmptyDate

\* ElPais._date_ddmmyyyy_if_today_from_url: "" unless the /YYYY-MM-DD/ of the
\* URL is a calendar date (ValueError otherwise) and equals today's.
date_ddmmyyyy_if_today_from_url(u, t) ==
    IF u.date.k = "ok" /\ u.date.d = Day(t + UtcOffset(SystemZone))
    THEN DDMMYYYY(u.date.d) ELSE EmptyDate

\* An entry of crawl's list: the URL and, in ElPais, the fecha paired with it.
Entry(u, fecha) == [u |-> u, fecha |-> fecha]

Us(entries) == [i \in DOMAIN entries |-> entries[i].u]
Range(s) == {s[i] : i \in DOMAIN s}

\* The loops of _extract_section_links / _extract_links_from_section /
\* _extract_home_links / _home_links / _section_links_today over the hrefs
\* hs: classify, join, keep the first occurrence.
RECURSIVE collect(_, _, _, _)
collect(p, hs, out, t) ==
    IF hs = <<>> THEN out
    ELSE LET h == hs[1]
             u == urljoin(p, h)
             fecha == IF p = "ElPais" THEN date_ddmmyyyy_if_today_from_url(u, t)
                      ELSE EmptyDate
             keep == /\ is_article_url(p, h)
                     /\ (p = "ElPais" => fecha # EmptyDate)
                     /\ u \notin Range(Us(out))
         IN  collect(p, Tail(hs), IF keep THEN Append(out, Entry(u, fecha)) ELSE out, t)

\* OkDiario._home_links: the fallback over soup.select("a[href]") runs when
\* the primary scan found fewer than 10 links.
PlausibilityFloor == 10

\* A discovery that scans all the anchors after the primary scan, always.
extract_links_all_anchors(p, page, t) ==
    collect(p, Filter(page, {"A", "H", "O"}), collect(p, ScanOrder(p, page), <<>>, t), t)

extract_links(p, page, t) ==
    LET first == collect(p, ScanOrder(p, page), <<>>, t)
    IN  IF p = "OkDiario" /\ Len(first) < PlausibilityFloor
        THEN collect(p, Filter(page, {"A", "H", "O"}), first, t)
        ELSE first

\* The URLs the scan of a seed page accepts, in the order it meets them,
\* repetitions included (what the loops see before "if u not in seen").
RECURSIVE Accepted(_, _, _)
Accepted(p, hs, t) ==
    IF hs = <<>> THEN <<>>
    ELSE LET u == urljoin(p, hs[1])
             ok == /\ is_article_url(p, hs[1])
                   /\ (p = "ElPais" => date_ddmmyyyy_if_today_from_url(u, t) # EmptyDate)
         IN  (IF ok THEN <<u>> ELSE <<>>) \o Accepted(p, Tail(hs), t)

AcceptedScan(p, page, t) ==
    Accepted(p, ScanOrder(p, page), t)
    \o (IF p = "OkDiario" /\ Len(collect(p, ScanOrder(p, page), <<>>, t)) < PlausibilityFloor
        THEN Accepted(p, Filter(page, {"A", "H", "O"}), t) ELSE <<>>)

\* An href of the scan makes urljoin raise: the exception leaves crawl.
ScanRaises(p, page) ==
    \/ \E i \in DOMAIN ScanOrder(p, page) : UrlRaises(ScanOrder(p, page)[i])
    \/ /\ p = "OkDiario"
       /\ Len(collect(p, ScanOrder(p, page), <<>>, 0)) < PlausibilityFloor
       /\ \E i \in DOMAIN page : UrlRaises(page[i].href)

(***************************************************************************)
(* Article pages.  A page is a record of the elements the extractors read: *)
(*   h1, og, ttl  text of the first <h1>, content of meta og:title, text   *)
(*                of <title>; "<none>" when the element is missing, " "    *)
(*                for whitespace only                                      *)
(*   ld     the JSON-LD script: k = "none" | "malformed" | "obj", and for  *)
(*          an object its @type (typ; "[NewsArticle]" is the list form),   *)
(*          articleBody (body), dateModified (mod), datePublished (pubd)   *)
(*   timeEl the datetime attribute of the first time[datetime]             *)
(*   creada the visible "Creada: dd.mm.yyyy hh:mm": k = "none" | "ok" (the *)
(*          Madrid wall clock w) | "range" (digits that are no date)       *)
(*   paras  the <p> (and heading / quote) nodes in document order, each    *)
(*          [len, cuts, cta, root, wide]: root, the node is selected       *)
(*          inside the class's body container after its noise elements     *)
(*          were removed; wide, the node is seen by the class's wider      *)
(*          fallback scan; cta, its text holds a paywall / CTA phrase      *)
(*   tags   the texts of the links next to "ARCHIVADO EN" (LaRazon)        *)
(***************************************************************************)
NoEl == "<none>"

strip(s) == IF s \in {NoEl, " "} THEN "" ELSE s

Ld(k, typ, body, mod, pubd) ==
    [k |-> k, typ |-> typ, body |-> body, mod |-> mod, pubd |-> pubd]
NoLd  == Ld("none", "", NoText, Absent, Absent)
BadLd == Ld("malformed", "", NoText, Absent, Absent)

Para(n, cuts, cta, root, wide) ==
    [len |-> n, cuts |-> cuts, cta |-> cta, root |-> root, wide |-> wide]

\* _extract_title / _title: the same cascade in the nine classes.  og wins as
\* soon as its content attribute is a non-empty string, blank or not.
extract_title(doc) ==
    IF strip(doc.h1) # "" THEN strip(doc.h1)
    ELSE IF doc.og \notin {NoEl, ""} THEN strip(doc.og)
    ELSE strip(doc.ttl)

\* typ in ("NewsArticle", "Article", "ReportageNewsArticle"), after
\* "if isinstance(typ, list): typ = typ[0]" where the code has that line.
TypeOk(typ, unwrapsList) ==
    \/ typ \in {"NewsArticle", "Article", "ReportageNewsArticle"}
    \/ unwrapsList /\ typ = "[NewsArticle]"

NonBlank(t) == t.len - t.pad > 0

\* "\n\n".join(parts)
RECURSIVE JoinLen(_)
JoinLen(ps) == IF ps = <<>> THEN 0 ELSE ps[1].len + JoinLen(Tail(ps))
RECURSIVE JoinCuts(_)
JoinCuts(ps) == IF ps = <<>> THEN 0 ELSE ps[1].cuts + JoinCuts(Tail(ps))

Join(ps) ==
    IF ps = <<>> THEN NoText
    ELSE Text(JoinLen(ps) + 2 * (Len(ps) - 1), 0, JoinCuts(ps))

RECURSIVE SelectParas(_, _, _, _)
SelectParas(ps, wide, floor, dropCta) ==
    IF ps = <<>> THEN <<>>
    ELSE LET q == ps[1]
             in == /\ (IF wide THEN q.wide ELSE q.root)
                   /\ q.len >= floor
                   /\ (dropCta => ~q.cta)
         IN  IF in THEN <<q>> \o SelectParas(Tail(ps), wide, floor, dropCta)
             ELSE SelectParas(Tail(ps), wide, floor, dropCta)

\* _body_from_jsonld (ElConfidencial, LaRazon, ElMundo) and the JSON-LD loop
\* of ElPais._body and ElDiario._extract_body, before cleaning: the
\* articleBody of the article object, or nothing.
jsonld_article_body(p, doc) ==
    IF /\ doc.ld.k = "obj"
       /\ TypeOk(doc.ld.typ, p \in {"ElConfidencial", "LaRazon", "ElMundo"})
       /\ NonBlank(doc.ld.body)
    THEN doc.ld.body ELSE NoText

body_from_jsonld(p, doc) ==
    IF p = "ElConfidencial"
    THEN strip_paywall_cuts(clean_text(jsonld_article_body(p, doc)))
    ELSE clean_text(jsonld_article_body(p, doc))

\* Per-node floor of the DOM scan of each class (len(txt) < floor is dropped).
NodeFloor(p) ==
    CASE p \in {"ABC", "ElConfidencial", "LaRazon", "ElMundo", "ElPais"} -> 35
      [] p = "ElDiario" -> 30
      [] p \in {"OkDiario", "ElPlural"} -> 25
      [] OTHER -> 1

\* The classes whose DOM scan drops CTA paragraphs.
DropsCta(p) == p \notin {"ElDiario", "OkDiario", "ElPlural"}

\* _body_from_dom / the DOM part of _extract_body / _body
body_from_dom(p, doc) ==
    LET t == clean_text(Join(SelectParas(doc.paras, FALSE, NodeFloor(p), DropsCta(p))))
    IN  IF p \in {"ABC", "ElConfidencial"} THEN strip_paywall_cuts(t) ELSE t

\* The wider paragraph scan: ABC.crawl and InfoLibre.crawl (len(t) > 30),
\* OkDiario._body (len(t) >= 25).
generic_scan(p, doc) ==
    LET t == clean_text(Join(SelectParas(doc.paras, TRUE,
                                          IF p = "OkDiario" THEN 25 ELSE 31, FALSE)))
    IN  IF p = "ABC" THEN strip_paywall_cuts(t) ELSE t

\* Length under which the tier above is mistrusted: _is_probably_paywalled,
\* _is_probably_bad_extraction (300), OkDiario._body (250).
FallbackBelow(p) == IF p = "OkDiario" THEN 250 ELSE 300

\* Length from which the JSON-LD body is returned at once; ElPais and
\* ElDiario return any non-empty one.
JsonLdAccept(p) ==
    CASE p \in {"ElConfidencial", "ElMundo"} -> 300
      [] p = "LaRazon" -> 250
      [] OTHER -> 1

\* A choice that lets the lower tier win a tie.
LongerOrEqual(alt, body) == IF alt.len >= body.len THEN alt ELSE body

Longer(alt, body) == IF alt.len > body.len THEN alt ELSE body

\* An extractor that reads the DOM container only.
extract_body_dom_only(p, doc) == body_from_dom(p, doc)

\* The body crawl ends up with, fallbacks included.
extract_body(p, doc) ==
    CASE p \in {"ElConfidencial", "LaRazon", "ElMundo", "ElPais", "ElDiario"} ->
            LET b == body_from_jsonld(p, doc)
            IN  IF b.len >= JsonLdAccept(p) THEN b ELSE body_from_dom(p, doc)
      [] p \in {"ABC", "InfoLibre", "OkDiario"} ->
            LET b == body_from_dom(p, doc)
            IN  IF b.len < FallbackBelow(p) THEN Longer(generic_scan(p, doc), b) ELSE b
      [] OTHER -> body_from_dom(p, doc)

\* The candidate bodies of the tiers that the extraction runs, in the order
\* in which it runs them.
tiers(p, doc) ==
    CASE p \in {"ElConfidencial", "LaRazon", "ElMundo", "ElPais", "ElDiario"} ->
            LET b == body_from_jsonld(p, doc)
            IN  IF b.len >= JsonLdAccept(p) THEN <<b>> ELSE <<b, body_from_dom(p, doc)>>
      [] p \in {"ABC", "InfoLibre", "OkDiario"} ->
            LET b == body_from_dom(p, doc)
            IN  IF b.len < FallbackBelow(p) THEN <<b, generic_scan(p, doc)>> ELSE <<b>>
      [] OTHER -> <<body_from_dom(p, doc)>>

(***************************************************************************)
(* Date resolution.                                                        *)
(***************************************************************************)
Truthy(dt) == dt.k \notin {"absent", "empty"}

\* dt = obj.get("dateModified") or obj.get("datePublished"), of the article
\* object of the JSON-LD script (Absent when there is none).
jsonld_date(doc) ==
    IF doc.ld.k = "obj" /\ TypeOk(doc.ld.typ, TRUE)
    THEN IF Truthy(doc.ld.mod) THEN doc.ld.mod ELSE doc.ld.pubd
    ELSE Absent

\* The visible "Creada: dd.mm.yyyy hh:mm" of LaRazon: datetime(...) with
\* tzinfo Europe/Madrid, outside any try, then astimezone(utc).
creada_iso(doc) ==
    CASE doc.creada.k = "ok"    -> DS("Z", doc.creada.w - UtcOffset("Europe/Madrid"), 0)
      [] doc.creada.k = "range" -> ValueErr
      [] OTHER                  -> EmptyIso

\* The date digits of the URL as "YYYY-MM-DDT00:00:00Z"; no calendar check.
url_iso(p, u) ==
    LET hit == IF p \in {"ABC", "LaRazon"} THEN u.art /\ u.date.k # "none"
               ELSE u.date.k # "none"
    IN  IF ~hit THEN EmptyIso
        ELSE IF u.date.k = "ok" THEN DS("Z", 24 * u.date.d, 0) ELSE BadStr

\* First of the candidates, in order, that is not "".
FirstIso(a, b, c) ==
    IF a # EmptyIso THEN a ELSE IF b # EmptyIso THEN b ELSE c

\* _extract_date_iso of ABC, ElConfidencial, ElDiario, LaRazon.
\* ABC / ElConfidencial: JSON-LD, then time[datetime], then the URL, each
\* skipped when it normalizes to "".  LaRazon: JSON-LD, "Creada:", URL.
\* ElDiario returns the normalized JSON-LD (or time) value as it is, "" too.
extract_date_iso(p, doc, u) ==
    LET ld == IF Truthy(jsonld_date(doc)) THEN normalize_dt(jsonld_date(doc)) ELSE EmptyIso
        tm == IF Truthy(doc.timeEl) THEN normalize_dt(doc.timeEl) ELSE EmptyIso
    IN  CASE p = "ElDiario" ->
                IF Truthy(jsonld_date(doc)) THEN ld
                ELSE IF Truthy(doc.timeEl) THEN tm
                ELSE url_iso(p, u)
          [] p = "LaRazon" -> FirstIso(ld, creada_iso(doc), url_iso(p, u))
          [] OTHER         -> FirstIso(ld, tm, url_iso(p, u))

(***************************************************************************)
(* LaRazon._should_skip_article.                                           *)
(***************************************************************************)
\* (the tag texts are written without accents)
LIFESTYLE_TAGS_DENY ==
    {"hogar", "decoracion", "bricolaje", "cocina", "recetas", "belleza", "moda",
     "salud", "bienestar", "psicologia", "curiosidades", "tiktok", "mascotas",
     "horoscopo", "astrologia", "viajes", "motor", "tecnologia", "compras"}

HARD_NEWS_TAGS_HINT ==
    {"pp", "psoe", "vox", "sumar", "podemos", "gobierno", "congreso", "senado",
     "tribunales", "aemet", "ucrania", "israel", "gaza", "rusia",
     "ministerio", "sanidad", "hacienda", "economia", "inflacion",
     "elecciones", "ue", "otan"}

\* HOWTO_HEADLINE_RE.search(headline)
HowTo(headline) == headline \in {"Como ahorrar"}

should_skip_article(u, headline, doc) ==
    IF u.svc THEN TRUE
    ELSE IF doc.tags \cap LIFESTYLE_TAGS_DENY # {} THEN TRUE
    ELSE IF doc.tags \cap HARD_NEWS_TAGS_HINT # {} THEN FALSE
    ELSE headline # "" /\ HowTo(headline)

(***************************************************************************)
(* The gate and the record of each crawl.                                  *)
(***************************************************************************)
DateGated  == {"ABC", "ElConfidencial", "ElDiario", "LaRazon"}

\* "len(body) < N: continue" of each crawl; InfoLibre, OkDiario and ElPlural
\* only test "not body".
MinBody(p) == IF p \in {"InfoLibre", "OkDiario", "ElPlural"} THEN 1 ELSE 300

Newspaper(p) ==
    CASE p = "ABC" -> "ABC"
      [] p = "ElConfidencial" -> "EL CONFIDENCIAL"
      [] p = "ElDiario" -> "EL DIARIO"
      [] p = "LaRazon" -> "LA RAZON"
      [] p = "ElMundo" -> "ELMUNDO"
      [] p = "ElPais" -> "EL PAIS"
      [] p = "InfoLibre" -> "INFOLIBRE"
      [] p = "OkDiario" -> "OkDiario"
      [] OTHER -> "ElPlural"

\* self.fecha, set by the base class Crawler.
CrawlerFecha == [fmt |-> "self.fecha", day |-> 0]

\* What one pass of the article loop computes for the page doc of entry e
\* at clock t: whether an exception leaves crawl, and whether the candidate
\* is appended.
Candidate(p, e, doc, t) ==
    LET iso      == IF p \in DateGated THEN extract_date_iso(p, doc, e.u) ELSE EmptyIso
        today    == p \in DateGated => (iso # EmptyIso /\ is_today(p, iso, t))
        headline == extract_title(doc)
        skip     == p = "LaRazon" /\ should_skip_article(e.u, headline, doc)
        body     == extract_body(p, doc)
    IN  [raised   |-> Raises(iso),
         iso      |-> iso,
         today    |-> today,
         headline |-> headline,
         body     |-> body,
         accept   |-> /\ ~Raises(iso)
                      /\ today
                      /\ headline # ""
                      /\ ~skip
                      /\ body.len >= MinBody(p)]

\* The dict each crawl appends; id stands for str(uuid.uuid4()).
Record(p, e, c, id) ==
    CASE p \in DateGated ->
            [id |-> id, headline |-> c.headline, body |-> c.body, link |-> e.u,
             date |-> iso_to_ddmmyyyy(c.iso), bias |-> "N", newspaper |-> Newspaper(p)]
      [] p = "ElPais" ->
            [id |-> id, headline |-> c.headline, body |-> c.body, link |-> e.u,
             fecha |-> e.fecha, sesgo |-> "N", newspaper |-> Newspaper(p)]
      [] OTHER ->
            [id |-> id, newspaper |-> Newspaper(p), date |-> CrawlerFecha,
             url |-> e.u, title |-> c.headline, body |-> c.body]

(***************************************************************************)
(* The responses the model serves.                                         *)
(***************************************************************************)
Anchor(h, r) == [href |-> h, region |-> r]

hToday   == Href("", "rel",   "none",   TRUE, UD("ok", 2), 1, FALSE)
hAbs     == Href("", "www",   "none",   TRUE, UD("ok", 2), 1, FALSE)
hOld     == Href("", "rel",   "none",   TRUE, UD("ok", 1), 2, FALSE)
hNoDate  == Href("", "rel",   "none",   TRUE, NoUrlDate,   3, FALSE)
hDenied  == Href("", "rel",   "inside", TRUE, UD("ok", 2), 4, FALSE)
hBroken  == Href("[", "rel",  "none",   FALSE, NoUrlDate,  0, FALSE)

\* The seed i of SECTION_URLS (self.url where there is one seed only) as a
\* resolved URL, and the href of a link to the first seed: a section path,
\* which no ARTICLE_RE matches; the id -i stands for that path.
SeedUrl(p, i) ==
    [host |-> BaseHost(p), deny |-> "none", art |-> FALSE, date |-> NoUrlDate,
     id |-> -i, svc |-> FALSE]
hSeed    == Href("", "rel",   "none",   FALSE, NoUrlDate, -1, FALSE)

AnchorPool ==
    {Anchor(hToday, "A"), Anchor(hAbs, "H"), Anchor(hOld, "A"),
     Anchor(hNoDate, "O"), Anchor(hDenied, "A"), Anchor(hBroken, "A"),
     Anchor(hSeed, "A")}

\* Seed pages: every sequence of at most MaxAnchors anchors of the pool.
SeedPages == UNION {[1..n -> AnchorPool] : n \in 0..MaxAnchors}

pFull   == Para(300, 0, FALSE, TRUE,  TRUE)
pShort  == Para(299, 0, FALSE, TRUE,  TRUE)
pCut    == Para(304, 1, FALSE, TRUE,  TRUE)
pTiny   == Para(30,  0, FALSE, TRUE,  TRUE)
pWide   == Para(320, 0, FALSE, FALSE, TRUE)
pCta    == Para(320, 0, TRUE,  TRUE,  FALSE)

Page(h1, og, ttl, ld, timeEl, creada, paras, tags) ==
    [h1 |-> h1, og |-> og, ttl |-> ttl, ld |-> ld, timeEl |-> timeEl,
     creada |-> creada, paras |-> paras, tags |-> tags]

NoCreada == [k |-> "none", w |-> 0]

\* An article object dated 23:00 UTC of day 1 (00:00 of day 2 in Madrid).
LdDated(body, mod, pubd) == Ld("obj", "NewsArticle", body, mod, pubd)

\* Pages that differ in title sources only.
TitlePages ==
    {Page(h, o, t, LdDated(NoText, Absent, DS("Z", 47, 0)), Absent, NoCreada, <<pFull>>, {}) :
        h \in {NoEl, "Titular"}, o \in {NoEl, " "}, t \in {NoEl, "Titulo"}}
    \cup
    {Page("Como ahorrar", NoEl, NoEl, LdDated(NoText, Absent, DS("Z", 47, 0)), Absent,
          NoCreada, <<pFull>>, tg) : tg \in {{}, {"psoe"}, {"moda", "psoe"}}}

\* Pages that differ in body sources only.
BodyPages ==
    {Page("Titular", NoEl, NoEl, LdDated(b, Absent, DS("Z", 47, 0)), Absent, NoCreada, ps, {}) :
        b \in {NoText},
        ps \in {<<>>, <<pShort>>, <<pCut>>, <<pTiny>>, <<pWide>>, <<pShort, pWide>>, <<pCta>>}}
    \cup
    {Page("Titular", NoEl, NoEl, LdDated(b, Absent, DS("Z", 47, 0)), Absent, NoCreada, ps, {}) :
        b \in {Text(299, 0, 0), Text(300, 0, 0), Text(250, 0, 0), Text(303, 3, 0)},
        ps \in {<<>>, <<pFull>>}}

\* Pages that differ in date sources only.
DatePages ==
    {Page("Titular", NoEl, NoEl, LdDated(NoText, m, Absent), Absent, NoCreada, <<pFull>>, {}) :
        m \in {Absent, BadStr, DS("Z", 46, 0), DS("Z", 60, 0), DS("off", 48, 1),
               DS("naive", 47, 0), DS("naive", 48, 0), DS("off", 0, 1)}}
    \cup
    {Page("Titular", NoEl, NoEl, LdDated(NoText, BadStr, DS("Z", 47, 0)), Absent, NoCreada, <<pFull>>, {}),
     Page("Titular", NoEl, NoEl, BadLd, DS("Z", 47, 0), NoCreada, <<pFull>>, {}),
     Page("Titular", NoEl, NoEl, NoLd, BadStr, NoCreada, <<pFull>>, {}),
     Page("Titular", NoEl, NoEl, NoLd, Absent, [k |-> "ok", w |-> 48], <<pFull>>, {}),
     Page("Titular", NoEl, NoEl, NoLd, Absent, [k |-> "ok", w |-> 47], <<pFull>>, {}),
     Page("Titular", NoEl, NoEl, NoLd, Absent, [k |-> "range", w |-> 0], <<pFull>>, {})}

ArticlePages == TitlePages \cup BodyPages \cup DatePages

NoPage == Page(NoEl, NoEl, NoEl, NoLd, Absent, NoCreada, <<>>, {})
NoEntry == Entry(urljoin("ABC", hBroken), EmptyDate)

\* last: the response crawl dealt with last.  kind "seed": scan is the list
\* of the URLs the link scan of the seed page accepted, in the order it met
\* them; kind "article": e is the entry, doc the page, t the clock and n the
\* length of data before the pass.
Last(kind, ok, scan, e, doc, t, n) ==
    [kind |-> kind, ok |-> ok, scan |-> scan, e |-> e, doc |-> doc, t |-> t, n |-> n]
NoLast == Last("none", FALSE, <<>>, NoEntry, NoPage, 0, 0)
LastSeed(ok, scan) == Last("seed", ok, scan, NoEntry, NoPage, 0, 0)
LastArticle(ok, e, doc, t, n) == Last("article", ok, <<>>, e, doc, t, n)

(***************************************************************************)
(* crawl()                                                                 *)
(***************************************************************************)
\* urls[:max_news]
\* call: no helper has been called on its own.
Call(fn, arg, res) == [fn |-> fn, arg |-> arg, res |-> res]
NoCall == Call("none", <<>>, <<>>)

Truncated == SubSeq(urls, 1, Min(max_news, Len(urls)))

Request(kind, target, ok) == [kind |-> kind, target |-> target, ok |-> ok]

Init ==
    /\ pub \in Pubs
    /\ max_news \in 0..MaxNewsArg
    /\ now \in NowSet
    /\ pc = "seeding"
    /\ sec = 1
    /\ urls = <<>>
    /\ seen = {}
    /\ idx = 0
    /\ data = <<>>
    /\ requests = <<>>
    /\ sleeps = 0
    /\ last = NoLast
    /\ call = NoCall

\* Where crawl stands once the seed sec has been dealt with, the list being l:
\* the next seed; "if not urls: return []"; the article loop; or, the
\* truncated list being empty, the return after a loop of no pass.
AfterSeed(l) ==
    IF sec < Cardinality(SECTION_URLS(pub)) THEN "seeding"
    ELSE IF Min(max_news, Len(l)) = 0 THEN "done"
    ELSE "fetching"

\* The clock moves on while crawl runs.
Tick ==
    /\ pc \in {"seeding", "fetching"}
    /\ \E t \in NowSet : t > now /\ now' = t
    /\ UNCHANGED <<pub, max_news, pc, sec, urls, seen, idx, data, requests, sleeps, last, call>>

\* _get_soup(sec) returns None (status other than 200, RequestException).
\* A section is skipped; InfoLibre, OkDiario and ElPlural return [].
SeedFails ==
    /\ pc = "seeding"
    /\ requests' = Append(requests, Request("seed", sec, FALSE))
    /\ sec' = sec + 1
    /\ pc' = IF pub \in MultiSeed THEN AfterSeed(urls) ELSE "done"
    /\ last' = LastSeed(FALSE, <<>>)
    /\ UNCHANGED <<pub, max_news, now, urls, seen, idx, data, sleeps, call>>

\* A merge that appends every link of the page, seen before or not.
merge_keep_all(l, new) == l \o new

\* The seed page arrives and its links are merged into urls, first
\* occurrence kept.
merge(l, new) ==
    IF new = <<>> THEN l
    ELSE LET RECURSIVE go(_, _)
             go(acc, rest) ==
                 IF rest = <<>> THEN acc
                 ELSE go(IF rest[1].u \in Range(Us(acc)) THEN acc ELSE Append(acc, rest[1]),
                         Tail(rest))
         IN  go(l, new)

SeedOk ==
    /\ pc = "seeding"
    /\ \E page \in SeedPages :
          /\ ~ScanRaises(pub, page)
          /\ \E l \in {merge(urls, extract_links(pub, page, now))} :
                /\ urls' = l
                /\ seen' = IF pub \in MultiSeed THEN Range(Us(l)) ELSE seen
                /\ pc' = AfterSeed(l)
          /\ last' = LastSeed(TRUE, AcceptedScan(pub, page, now))
    /\ requests' = Append(requests, Request("seed", sec, TRUE))
    /\ sec' = sec + 1
    /\ UNCHANGED <<pub, max_news, now, idx, data, sleeps, call>>

\* The seed page holds an href on which urljoin raises ValueError; nothing
\* in the link scan or in crawl catches it.
SeedRaises ==
    /\ pc = "seeding"
    /\ \E page \in SeedPages :
          /\ ScanRaises(pub, page)
          /\ last' = LastSeed(TRUE, <<>>)
    /\ requests' = Append(requests, Request("seed", sec, TRUE))
    /\ pc' = "raised"
    /\ UNCHANGED <<pub, max_news, now, sec, urls, seen, idx, data, sleeps, call>>

\* An accumulation that puts the newest record first.
EmitFront(l, rec) == <<rec>> \o l

\* data.append(...) / out.append(...) / results.append(...)
Emit(l, rec) == Append(l, rec)

\* A loop that fetches without waiting.
sleep_skipped(n) == n

\* time.sleep(sleep_s): one more politeness delay has been served.
sleep(n) == n + 1

\* Where the article loop stands after the pass for entry idx + 1.
AfterArticle == IF idx + 1 < Len(Truncated) THEN "fetching" ELSE "done"

\* time.sleep; _get_soup(link) returns None; continue.
ArticleFails ==
    /\ pc = "fetching"
    /\ sleeps' = sleep(sleeps)
    /\ requests' = Append(requests, Request("article", Truncated[idx + 1].u, FALSE))
    /\ last' = LastArticle(FALSE, Truncated[idx + 1], NoPage, now, Len(data))
    /\ idx' = idx + 1
    /\ pc' = AfterArticle
    /\ UNCHANGED <<pub, max_news, now, sec, urls, seen, data, call>>

\* time.sleep; the page arrives; date, title, body, gate; append or continue.
ArticleOk ==
    /\ pc = "fetching"
    /\ \E doc \in ArticlePages, e \in {Truncated[idx + 1]} :
          \E c \in {Candidate(pub, e, doc, now)} :
              /\ ~c.raised
              /\ data' = IF c.accept THEN Emit(data, Record(pub, e, c, Len(data) + 1))
                         ELSE data
              /\ last' = LastArticle(TRUE, e, doc, now, Len(data))
              /\ requests' = Append(requests, Request("article", e.u, TRUE))
    /\ sleeps' = sleep(sleeps)
    /\ idx' = idx + 1
    /\ pc' = AfterArticle
    /\ UNCHANGED <<pub, max_news, now, sec, urls, seen, call>>

\* The page arrives and _extract_date_iso raises; the exception leaves crawl.
ArticleRaises ==
    /\ pc = "fetching"
    /\ \E doc \in ArticlePages, e \in {Truncated[idx + 1]} :
          /\ pub \in DateGated
          /\ Raises(extract_date_iso(pub, doc, e.u))
          /\ last' = LastArticle(TRUE, e, doc, now, Len(data))
          /\ requests' = Append(requests, Request("article", e.u, TRUE))
    /\ sleeps' = sleep(sleeps)
    /\ pc' = "raised"
    /\ UNCHANGED <<pub, max_news, now, sec, urls, seen, idx, data, call>>

Next ==
    \/ Tick
    \/ SeedFails
    \/ SeedOk
    \/ SeedRaises
    \/ ArticleFails
    \/ ArticleOk
    \/ ArticleRaises

Spec == Init /\ [][Next]_vars

\* crawl is a sequential loop: while a step of it can be taken, one is.
SpecLive == Init /\ [][Next]_vars /\ WF_vars(Next)

(***************************************************************************)
(* The helpers called on their own, on a crawler that has been constructed *)
(* and whose crawl has not started.                                        *)
(***************************************************************************)
crawlVars == <<pub, max_news, now, pc, sec, urls, seen, idx, data, requests, sleeps, last>>

\* The last helper has returned and its value has been dropped.
Return ==
    /\ call.fn # "none"
    /\ call' = NoCall
    /\ UNCHANGED crawlVars

\* The date strings handed to _normalize_dt / _normalize_iso.
DateStrings ==
    {DS("Z", 46, 0), DS("Z", 47, 0), DS("Z", 60, 0),
     DS("off", 47, 1), DS("off", 48, 1), DS("off", 45, -2), DS("off", 61, 1),
     DS("off", 0, 1), DS("naive", 47, 0), BadStr}

\* _normalize_dt(a) and _normalize_dt(b)
NormalizeDt ==
    /\ call.fn = "none"
    /\ \E a, b \in DateStrings :
          call' = Call("normalize_dt", <<a, b>>, <<normalize_dt(a), normalize_dt(b)>>)
    /\ UNCHANGED crawlVars

(***************************************************************************)
(* clean_json.py.  A record of the corpus is its id and the rest of it     *)
(* (n); NoId is an id that news.get("id") finds missing, null or empty.    *)
(***************************************************************************)
NoId == ""
News(id, n) == [id |-> id, n |-> n]
NewsPool == {News(id, n) : id \in {NoId, "a", "b"}, n \in 1..2}
RECURSIVE Corpora(_)
Corpora(k) ==
    IF k = 0 THEN {<<>>}
    ELSE Corpora(k - 1) \cup {Append(c, r) : c \in Corpora(k - 1), r \in NewsPool}

\* A cleaning that keeps the last record of each id.
RECURSIVE clean_json_keep_last(_)
clean_json_keep_last(news_data) ==
    IF news_data = <<>> THEN <<>>
    ELSE LET news == Head(news_data)
             rest == Tail(news_data)
         IN  IF news.id # NoId /\ \A k \in 1..Len(rest) : rest[k].id # news.id
             THEN <<news>> \o clean_json_keep_last(rest)
             ELSE clean_json_keep_last(rest)

\* The loop of clean_json.py from a given seen_ids: the value of unique_news.
RECURSIVE unique_news(_, _)
unique_news(news_data, seen_ids) ==
    IF news_data = <<>> THEN <<>>
    ELSE LET news == Head(news_data)
         IN  IF news.id # NoId /\ news.id \notin seen_ids
             THEN <<news>> \o unique_news(Tail(news_data), seen_ids \cup {news.id})
             ELSE unique_news(Tail(news_data), seen_ids)

clean_json(news_data) == unique_news(news_data, {})

\* clean_json.py run on a corpus file
CleanJson ==
    /\ call.fn = "none"
    /\ \E news_data \in Corpora(MaxCorpus) :
          call' = Call("clean_json", news_data, clean_json(news_data))
    /\ UNCHANGED crawlVars

\* The hrefs handed to the classifier on its own: those of the seed pages,
\* one whose path starts with a denied string, and absolute ones on the bare
\* domain, on a foreign host whose name holds the domain string, and on an
\* unrelated host.
hPrefix == Href("", "rel",   "prefix", TRUE, UD("ok", 2), 5, FALSE)
hBare   == Href("", "bare",  "none",   TRUE, UD("ok", 2), 1, FALSE)
hLike   == Href("", "like",  "none",   TRUE, UD("ok", 2), 1, FALSE)
hOther  == Href("", "other", "none",   TRUE, UD("ok", 2), 1, FALSE)

HelperHrefs == {a.href : a \in AnchorPool} \cup {hPrefix, hBare, hLike, hOther}

\* What a call of the classifier gives: its verdict, or the ValueError of
\* urljoin.
Verdict(p, h) ==
    IF UrlRaises(h) THEN "ValueError"
    ELSE IF is_article_url(p, h) THEN "True" ELSE "False"

\* self._is_valid_article_url(href), called once per anchor of a page: call
\* keeps the verdicts of the successive calls on one href.
Classify ==
    /\ call.fn \in {"none", "is_article_url"}
    /\ \E h \in HelperHrefs :
          IF call.fn = "is_article_url" /\ call.arg = h
          THEN /\ Len(call.res) < MaxCalls
               /\ call' = Call("is_article_url", h, Append(call.res, Verdict(pub, h)))
          ELSE call' = Call("is_article_url", h, <<Verdict(pub, h)>>)
    /\ UNCHANGED crawlVars

\* Paragraphs and pages on which the two lower tiers disagree: a node of
\* the container the wide scan misses, and nodes only the wide scan reaches.
pRootOnly  == Para(100, 0, FALSE, TRUE,  FALSE)
pWideCut   == Para(100, 1, FALSE, FALSE, TRUE)
pWideSmall == Para(60,  0, FALSE, FALSE, TRUE)

HelperPages ==
    ArticlePages
    \cup
    {Page("Titular", NoEl, NoEl, LdDated(NoText, Absent, DS("Z", 47, 0)), Absent, NoCreada, ps, {}) :
        ps \in {<<pRootOnly>>, <<pRootOnly, pWideCut>>, <<pRootOnly, pWideSmall>>}}
    \cup
    {Page(h, "Titular og", t, LdDated(NoText, Absent, DS("Z", 47, 0)), Absent, NoCreada, <<pFull>>, {}) :
        h \in {NoEl, " ", "Titular"}, t \in {NoEl, "Titulo"}}
    \cup
    {Page("Titular", NoEl, NoEl, LdDated(NoText, BadStr, Absent), DS("Z", 47, 0), NoCreada, <<pFull>>, {}),
     Page("Titular", NoEl, NoEl, LdDated(NoText, DS("Z", 60, 0), DS("Z", 47, 0)), Absent, NoCreada, <<pFull>>, {}),
     Page("Titular", NoEl, NoEl, LdDated(NoText, BadStr, Absent), Absent, [k |-> "ok", w |-> 48], <<pFull>>, {})}

\* self._extract_title(soup)
ExtractTitle ==
    /\ call.fn = "none"
    /\ \E doc \in HelperPages :
          call' = Call("extract_title", doc, extract_title(doc))
    /\ UNCHANGED crawlVars

\* self._extract_date_iso(soup, link), in the classes that have it
ExtractDateIso ==
    /\ call.fn = "none"
    /\ pub \in DateGated
    /\ \E doc \in HelperPages, h \in {hToday, hNoDate} :
          call' = Call("extract_date_iso", [doc |-> doc, u |-> urljoin(pub, h)],
                       extract_date_iso(pub, doc, urljoin(pub, h)))
    /\ UNCHANGED crawlVars

\* self._extract_body(soup), with the fallback scan of crawl
ExtractBody ==
    /\ call.fn = "none"
    /\ \E doc \in HelperPages :
          call' = Call("extract_body", doc,
                       [body |-> extract_body(pub, doc), tiers |-> tiers(pub, doc)])
    /\ UNCHANGED crawlVars

(***************************************************************************)
(* _strip_paywall_cuts on the text itself.  A cleaned text is the sequence *)
(* of its tokens, one blank between two of them:                           *)
(*   "palabra"  a word            "algo..."  a word with an ellipsis glued *)
(*   "..."      three dots alone  "u2026"    the character U+2026 alone    *)
(***************************************************************************)
Tokens == {"palabra", "algo...", "...", "u2026"}
RECURSIVE Texts(_)
Texts(k) ==
    IF k = 0 THEN {<<>>}
    ELSE Texts(k - 1) \cup {Append(t, x) : t \in Texts(k - 1), x \in Tokens}

\* re.sub(r"\s+<e>\s+", " ", text) from token i on; ws tells that the blank
\* before token i has not been consumed by the match before it.
RECURSIVE re_sub(_, _, _, _)
re_sub(ts, e, i, ws) ==
    IF i > Len(ts) THEN <<>>
    ELSE IF ts[i] = e /\ ws /\ i > 1 /\ i < Len(ts)
         THEN re_sub(ts, e, i + 1, FALSE)
         ELSE <<ts[i]>> \o re_sub(ts, e, i + 1, TRUE)

\* The two substitutions of _strip_paywall_cuts, "..." first.
strip_cuts(ts) == re_sub(re_sub(ts, "...", 1, TRUE), "u2026", 1, TRUE)

\* self._strip_paywall_cuts(text)
StripPaywallCuts ==
    /\ call.fn = "none"
    /\ pub \in {"ABC", "ElConfidencial"}
    /\ \E ts \in Texts(MaxTokens) :
          call' = Call("strip_paywall_cuts", ts, strip_cuts(ts))
    /\ UNCHANGED crawlVars

\* self._should_skip_article(link, headline, art_soup), as LaRazon.crawl
\* calls it: with the headline of the page.
ShouldSkipArticle ==
    /\ call.fn = "none"
    /\ pub = "LaRazon"
    /\ \E doc \in HelperPages, h \in {hToday, hNoDate} :
          call' = Call("should_skip_article",
                       [u |-> urljoin(pub, h), headline |-> extract_title(doc), doc |-> doc],
                       should_skip_article(urljoin(pub, h), extract_title(doc), doc))
    /\ UNCHANGED crawlVars

\* Seed pages around the floor of OkDiario: one short of it or exactly that
\* many distinct article links in the primary region, followed by up to two
\* anchors: a link of the primary region repeated elsewhere, a new link
\* elsewhere on the page, a new link in a heading.
hNum(i) == Href("", "rel", "none", TRUE, UD("ok", 2), 10 + i, FALSE)
PrimaryRun(k) == [i \in 1..k |-> Anchor(hNum(i), "A")]
TailAnchors == {Anchor(hNum(1), "O"), Anchor(hNum(20), "O"), Anchor(hNum(21), "H")}
LongSeedPages ==
    {PrimaryRun(k) \o tl :
        k \in {PlausibilityFloor - 1, PlausibilityFloor},
        tl \in UNION {[1..n -> TailAnchors] : n \in 0..2}}

\* The link scan of one seed page: _extract_section_links(soup) /
\* _home_links(soup) / _section_links_today(soup).
ExtractLinks ==
    /\ call.fn = "none"
    /\ \E page \in LongSeedPages :
          call' = Call("extract_links", page, Us(extract_links(pub, page, now)))
    /\ UNCHANGED crawlVars

NextHelpers ==
    \/ Tick
    \/ ExtractLinks
    \/ ShouldSkipArticle
    \/ StripPaywallCuts
    \/ ExtractTitle
    \/ ExtractBody
    \/ ExtractDateIso
    \/ Return
    \/ NormalizeDt
    \/ CleanJson
    \/ Classify

SpecHelpers == Init /\ [][NextHelpers]_vars

(***************************************************************************)
(* Properties.                                                             *)
(***************************************************************************)
\* crawl has returned, or an exception has left it.
Ended == pc \in {"done", "raised"}

\* The headline and the link of a record, under either name.
HeadlineOf(r) == IF "headline" \in DOMAIN r THEN r.headline ELSE r.title
LinkOf(r)     == IF "link" \in DOMAIN r THEN r.link ELSE r.url

IsArticleRequest(r) == r.kind = "article"
ArticleRequests == SelectSeq(requests, IsArticleRequest)

\* The lowest of the publishers' body thresholds.
LowestThreshold == 250

\* C1: every record crawl holds, whatever the crawler and the pages served,
\* has a non-empty headline, a non-empty body, and a body of at least the
\* publisher's threshold (read here as the lowest one, 250).
C1_RecordsMeetThreshold ==
    \A i \in 1..Len(data) :
        /\ HeadlineOf(data[i]) # ""
        /\ data[i].body.len > 0
        /\ data[i].body.len >= LowestThreshold

\* The instants (hours, UTC) that a page and its URL put forward as the
\* article's date, whichever source and whichever crawler.
PageInstants(doc, u) ==
    {d.w - (IF d.k = "off" THEN d.off ELSE 0) :
        d \in {x \in {doc.ld.mod, doc.ld.pubd, doc.timeEl} : x.k \in {"Z", "off", "naive"}}}
    \cup (IF doc.creada.k = "ok" THEN {doc.creada.w - UtcOffset("Europe/Madrid")} ELSE {})
    \cup (IF u.date.k = "ok" THEN {24 * u.date.d} ELSE {})

\* Some source dates the article today, in UTC or in Europe/Madrid.
DatedToday(doc, u, t) ==
    \E w \in PageInstants(doc, u), o \in {0, UtcOffset("Europe/Madrid")} :
        Day(w + o) = Day(t + o)

\* C2: no crawler emits a record for an article that no date source dates
\* today: the pass that appended a record was for a page dated today.
C2_OnlyTodayEmitted ==
    (last.kind = "article" /\ Len(data) > last.n)
        => DatedToday(last.doc, last.e.u, last.t)

\* C3: no exception leaves crawl, whatever the seed and article responses.
C3_NeverRaises == pc # "raised"

\* C4: once crawl has ended, an article URL whose fetch failed was requested
\* once, no record links to it, and every later entry of the truncated list
\* was fetched and its pass completed.
C4_FailedFetchDropsOnlyThatUrl ==
    Ended =>
        \A i \in 1..Len(ArticleRequests) :
            ~ArticleRequests[i].ok =>
                /\ Cardinality({j \in 1..Len(ArticleRequests) :
                        ArticleRequests[j].target = ArticleRequests[i].target}) = 1
                /\ \A k \in 1..Len(data) : LinkOf(data[k]) # ArticleRequests[i].target
                /\ \A j \in (i + 1)..Len(Truncated) :
                        /\ j <= idx
                        /\ ArticleRequests[j].target = Truncated[j].u

\* The sequence s with every element kept at its first occurrence only.
RECURSIVE FirstOccurrences(_)
FirstOccurrences(s) ==
    IF s = <<>> THEN <<>>
    ELSE LET init == SubSeq(s, 1, Len(s) - 1)
             x    == s[Len(s)]
         IN  IF x \in Range(init) THEN FirstOccurrences(init)
             ELSE Append(FirstOccurrences(init), x)

\* C5: each seed response leaves the discovered sequence equal to the first
\* occurrences of what it was followed by the URLs the scan of the page
\* accepted, in scan order (so no duplicate, and a URL seen before neither
\* moves nor reappears); no other step changes the sequence.
C5_FirstOccurrenceOrder ==
    [][IF last'.kind = "seed" /\ requests' # requests
       THEN Us(urls') = FirstOccurrences(Us(urls) \o last'.scan)
       ELSE urls' = urls]_vars

\* The second seed page names twice a URL that the first seed had put at the
\* head of a list of two.
C5_Witness ==
    /\ last.kind = "seed" /\ last.ok
    /\ Len(requests) = 2
    /\ Len(urls) = 2
    /\ Len(last.scan) = 2
    /\ last.scan[1] = last.scan[2]
    /\ last.scan[1] = urls[1].u

\* C6: once crawl has ended, for max_news >= 0, the article URLs requested
\* are the first min(max_news, n) discovered ones, in order and no other,
\* and crawl holds at most max_news records.
C6_FetchesExactlyThePrefix ==
    Ended =>
        /\ [i \in DOMAIN ArticleRequests |-> ArticleRequests[i].target] = Us(Truncated)
        /\ Len(data) <= max_news

\* C7: every record has exactly the fields id, newspaper, headline, body,
\* link, date and bias, its date a dd-mm-yyyy string and its bias "N".
C7_RecordSchema ==
    \A i \in 1..Len(data) :
        /\ DOMAIN data[i] = {"id", "newspaper", "headline", "body", "link", "date", "bias"}
        /\ data[i].date.fmt = "dd-mm-yyyy"
        /\ data[i].bias = "N"

\* Where the discovered sequence holds the URL u.
Positions(u) == {i \in 1..Len(urls) : urls[i].u = u}

\* C8: the links of the records, in output order, are links of the
\* discovered sequence taken at strictly increasing positions.
C8_OutputInDiscoveryOrder ==
    /\ \A k \in 1..Len(data) : Positions(LinkOf(data[k])) # {}
    /\ \A k, l \in 1..Len(data) :
          k < l => \A i \in Positions(LinkOf(data[k])), j \in Positions(LinkOf(data[l])) : i < j

\* crawl has returned two records.
C8_Witness ==
    /\ pc = "done"
    /\ Len(data) = 2
    /\ LinkOf(data[1]) = urls[1].u
    /\ LinkOf(data[2]) = urls[2].u

\* The body length each publisher's gate is to demand.
PublisherThreshold(p) == IF p \in {"OkDiario", "ElPlural"} THEN 250 ELSE 300

\* C9: after the pass for a page with a non-empty headline and dated today,
\* a body one character short of the publisher's threshold has added no
\* record and a body of exactly the threshold has added one.
C9_GateInclusiveAtThreshold ==
    (last.kind = "article" /\ last.ok /\ pc # "raised") =>
        LET c       == Candidate(pub, last.e, last.doc, last.t)
            emitted == Len(data) > last.n
            dated   == IF pub \in DateGated THEN c.today
                       ELSE DatedToday(last.doc, last.e.u, last.t)
        IN  (c.headline # "" /\ dated) =>
                /\ c.body.len = PublisherThreshold(pub) - 1 => ~emitted
                /\ c.body.len = PublisherThreshold(pub) => emitted

\* The calendar day, in the zone tz, of a resolved date string; a naive one
\* is a wall clock of that zone already.
LocalDay(iso, tz) ==
    IF iso.k = "naive" THEN Day(iso.w) ELSE Day(iso.w + UtcOffset(tz))

\* C10: for the crawlers that test the date, the verdict on a resolved date
\* is that its calendar day in the crawler's own zone (Europe/Madrid for
\* LaRazon, UTC for ABC, ElConfidencial and ElDiario) is today's calendar
\* day in that zone, and a record is appended only under that verdict.
C10_TodayIsLocalDay ==
    (last.kind = "article" /\ last.ok /\ pub \in DateGated) =>
        LET iso  == extract_date_iso(pub, last.doc, last.e.u)
            tz   == TodayZone(pub)
            same == LocalDay(iso, tz) = Day(last.t + UtcOffset(tz))
        IN  Parses(iso) =>
                /\ is_today(pub, iso, last.t) <=> same
                /\ Len(data) > last.n => same

\* LaRazon has appended a record for an instant of today's day in Madrid
\* whose UTC day is not today's UTC day.
C10_Witness ==
    /\ pub = "LaRazon"
    /\ last.kind = "article" /\ last.ok
    /\ Len(data) > last.n
    /\ LET iso == extract_date_iso(pub, last.doc, last.e.u)
       IN  /\ iso.k = "Z"
           /\ Day(iso.w) # Day(last.t)
           /\ LocalDay(iso, "Europe/Madrid") = Day(last.t + UtcOffset("Europe/Madrid"))

\* LaRazon has appended nothing for an instant of yesterday's day in Madrid
\* whose UTC day is today's UTC day.
C10_RolloverReached ==
    /\ pub = "LaRazon"
    /\ last.kind = "article" /\ last.ok
    /\ Len(data) = last.n
    /\ LET iso == extract_date_iso(pub, last.doc, last.e.u)
       IN  /\ iso.k = "Z"
           /\ Day(iso.w) = Day(last.t)
           /\ LocalDay(iso, "Europe/Madrid") # Day(last.t + UtcOffset("Europe/Madrid"))

\* C11: two date strings of one instant, one with a numeric offset and one
\* with Z, normalize to the same value, the Z string of that instant.
C11_OffsetAndZAgree ==
    call.fn = "normalize_dt" =>
        LET a == call.arg[1]
            b == call.arg[2]
        IN  (a.k = "off" /\ b.k = "Z" /\ a.w - a.off = b.w) =>
                /\ call.res[1] = call.res[2]
                /\ call.res[1] = DS("Z", b.w, 0)

\* Both strings were normalized, the first one written with an offset other
\* than zero and a wall clock other than the second's.
C11_Witness ==
    /\ call.fn = "normalize_dt"
    /\ call.arg[1].k = "off" /\ call.arg[2].k = "Z"
    /\ call.arg[1].off # 0
    /\ call.arg[1].w - call.arg[1].off = call.arg[2].w
    /\ call.res[1] = call.res[2]
    /\ call.res[1].k = "Z"

\* The records of s at the positions of I, in the order of s.
RECURSIVE At(_, _, _)
At(s, I, i) ==
    IF i > Len(s) THEN <<>>
    ELSE (IF i \in I THEN <<s[i]>> ELSE <<>>) \o At(s, I, i + 1)

FirstOfItsId(s) == {i \in 1..Len(s) : \A j \in 1..(i - 1) : s[j].id # s[i].id}

\* C12 as stated: the cleaned corpus is the input without the records that
\* are not the first of their id, in input order.
C12_KeepsFirstOfEachId ==
    call.fn = "clean_json" => call.res = At(call.arg, FirstOfItsId(call.arg), 1)

\* C12: the cleaned corpus is the input without the records whose id is
\* missing or empty and without the records that are not the first of their
\* id, in input order.
C12_KeepsFirstOfEachNonEmptyId ==
    call.fn = "clean_json" =>
        call.res = At(call.arg,
                      {i \in FirstOfItsId(call.arg) : call.arg[i].id # NoId}, 1)

\* A corpus was cleaned in which an id occurs twice with different records,
\* a record has no id, and a record is kept.
C12_Witness ==
    /\ call.fn = "clean_json"
    /\ \E i, j \in 1..Len(call.arg) :
          /\ i < j
          /\ call.arg[i].id = call.arg[j].id
          /\ call.arg[i].id # NoId
          /\ call.arg[i] # call.arg[j]
    /\ \E i \in 1..Len(call.arg) : call.arg[i].id = NoId
    /\ Len(call.res) >= 1
    /\ Len(call.res) < Len(call.arg)

C13_RefusedTwice ==
    /\ call.fn = "is_article_url"
    /\ Len(call.res) = MaxCalls
    /\ call.res[MaxCalls] = "False"

\* C14 as stated: the body returned is at least as long as the candidate of
\* every tier that was run.
C14_BodyAtLeastEveryCandidate ==
    call.fn = "extract_body" =>
        \A i \in 1..Len(call.res.tiers) : call.res.body.len >= call.res.tiers[i].len

JsonLdCrawlers == {"ElConfidencial", "LaRazon", "ElMundo", "ElPais", "ElDiario"}
AcceptAt(p) == IF p = "LaRazon" THEN 250 ELSE 300

\* C15: in the crawlers that read JSON-LD, a normalized articleBody at least
\* as long as the publisher's threshold is the body returned, and no lower
\* tier is run.
C15_LongJsonLdBodyReturnedAtOnce ==
    (call.fn = "extract_body" /\ pub \in JsonLdCrawlers) =>
        LET b == body_from_jsonld(pub, call.arg)
        IN  b.len >= AcceptAt(pub) =>
                /\ call.res.body = b
                /\ call.res.tiers = <<b>>

\* A JSON-LD body at the threshold was returned from a page whose container
\* holds nothing, the padding of the raw articleBody removed.
C15_Witness ==
    /\ call.fn = "extract_body"
    /\ pub = "ElMundo"
    /\ call.arg.ld.body = Text(303, 3, 0)
    /\ call.arg.paras = <<>>
    /\ call.res.body = Text(300, 0, 0)
    /\ Len(call.res.tiers) = 1

ScanCrawlers == {"ABC", "InfoLibre", "OkDiario"}

\* C16: in the crawlers that have it, the generic paragraph scan runs only
\* when the body of the tier above is shorter than the threshold, and then
\* the body is the longer of the two candidates, the upper one on a tie.
C16_ScanOnlyWhenShortAndLongerWins ==
    (call.fn = "extract_body" /\ pub \in ScanCrawlers /\ Len(call.res.tiers) = 2) =>
        LET upper == call.res.tiers[1]
            scan  == call.res.tiers[2]
        IN  /\ upper = body_from_dom(pub, call.arg)
            /\ upper.len < PublisherThreshold(pub)
            /\ call.res.body = IF scan.len > upper.len THEN scan ELSE upper

\* The scan ran and tied with the tier above, on texts that differ.
C16_Witness ==
    /\ call.fn = "extract_body"
    /\ pub \in ScanCrawlers
    /\ Len(call.res.tiers) = 2
    /\ call.res.tiers[1].len = call.res.tiers[2].len
    /\ call.res.tiers[1] # call.res.tiers[2]
    /\ call.res.body = call.res.tiers[1]

\* The scan ran and lost / the scan ran and won / the scan did not run.
C16_ScanLost ==
    /\ call.fn = "extract_body" /\ pub \in ScanCrawlers /\ Len(call.res.tiers) = 2
    /\ call.res.tiers[2].len < call.res.tiers[1].len
C16_ScanWon ==
    /\ call.fn = "extract_body" /\ pub \in ScanCrawlers /\ Len(call.res.tiers) = 2
    /\ call.res.tiers[2].len > call.res.tiers[1].len
C16_ScanNotRun ==
    /\ call.fn = "extract_body" /\ pub \in ScanCrawlers /\ Len(call.res.tiers) = 1

\* The text of a title source as the cascade reads it: "" for an absent or
\* blank one.
SourceText(x) == IF x \in {NoEl, " ", ""} THEN "" ELSE x

\* C17 as stated: the title is the first heading's text if that is not
\* empty, else the og:title content if that is not empty, else the text of
\* the title element; it is empty only when the three are empty or absent.
C17_FirstNonEmptyTitleWins ==
    call.fn = "extract_title" =>
        LET doc == call.arg
        IN  call.res = IF SourceText(doc.h1) # "" THEN SourceText(doc.h1)
                       ELSE IF SourceText(doc.og) # "" THEN SourceText(doc.og)
                       ELSE SourceText(doc.ttl)

\* A usable timestamp: a string the date gate can parse.
Usable(iso) == iso.k \in {"Z", "naive"}

Normalized(dt) == IF Truthy(dt) THEN normalize_dt(dt) ELSE EmptyIso

\* The value of each date source of a class, in its priority order.
DateSources(p, doc, u) ==
    <<Normalized(jsonld_date(doc)),
      IF p = "LaRazon" THEN creada_iso(doc) ELSE Normalized(doc.timeEl),
      url_iso(p, u)>>

\* C18 as stated: the first source, in priority order, whose value is usable
\* is the one returned; a missing or unparsable source never ends the
\* resolution.
C18_FirstUsableSourceWins ==
    call.fn = "extract_date_iso" =>
        LET src == DateSources(pub, call.arg.doc, call.arg.u)
        IN  \A i \in 1..3 :
                (Usable(src[i]) /\ \A j \in 1..(i - 1) : ~Usable(src[j]))
                    => call.res = src[i]

\* C19 as stated: of an article object that carries dateModified and
\* datePublished, the resolver returns the normalized dateModified when that
\* is usable and the normalized datePublished otherwise.
C19_ModifiedElsePublished ==
    call.fn = "extract_date_iso" =>
        LET ld == call.arg.doc.ld
        IN  (ld.k = "obj" /\ Truthy(ld.mod) /\ Truthy(ld.pubd)) =>
                call.res = IF Usable(normalize_dt(ld.mod)) THEN normalize_dt(ld.mod)
                           ELSE normalize_dt(ld.pubd)

\* C20 as stated: the date of a record a date-testing crawler appends is the
\* resolved instant's calendar day, dd-mm-yyyy, in the zone of the crawler's
\* today verdict, and so it is today's date in that zone.
C20_DateInZoneOfTodayVerdict ==
    (last.kind = "article" /\ last.ok /\ Len(data) > last.n /\ pub \in DateGated) =>
        LET iso == extract_date_iso(pub, last.doc, last.e.u)
            tz  == TodayZone(pub)
        IN  /\ data[Len(data)].date = DDMMYYYY(LocalDay(iso, tz))
            /\ data[Len(data)].date = DDMMYYYY(Day(last.t + UtcOffset(tz)))

\* The positions of s that hold x.
Where(s, x) == {i \in 1..Len(s) : s[i] = x}

\* C21 as stated: the stripped text holds no ellipsis token with whitespace
\* on both sides, and it holds every glued ellipsis of the input.
C21_NoIsolatedEllipsisLeft ==
    call.fn = "strip_paywall_cuts" =>
        /\ \A i \in 2..(Len(call.res) - 1) : call.res[i] \notin {"...", "u2026"}
        /\ Cardinality(Where(call.res, "algo...")) = Cardinality(Where(call.arg, "algo..."))

\* C22 as stated: a link without the service marker is rejected on its tags
\* exactly when they meet the lifestyle set and miss the hard-news set, and
\* tags that meet the hard-news set are never rejected, by the tags or by the
\* headline.
C22_HardNewsTagsNeverRejected ==
    (call.fn = "should_skip_article" /\ ~call.arg.u.svc) =>
        LET tags  == call.arg.doc.tags
            deny  == tags \cap LIFESTYLE_TAGS_DENY # {}
            allow == tags \cap HARD_NEWS_TAGS_HINT # {}
        IN  /\ allow => ~call.res
            /\ (deny /\ ~allow) => call.res
            /\ (~deny /\ ~allow) => (call.res <=> HowTo(call.arg.headline))

Accepts(res) == \E i \in 1..Len(res) : res[i] = "True"

\* C23 as stated: no classifier accepts a link whose resolved path starts
\* with or holds a denied string, wherever the string stands in the path.
C23_DeniedAnywhereNeverAccepted ==
    (call.fn = "is_article_url" /\ call.arg.deny \in {"prefix", "inside"})
        => ~Accepts(call.res)

\* C23: no classifier accepts a link whose resolved path starts with a denied
\* string, and none but InfoLibre's, which tests the start of the path only,
\* accepts a link whose path holds a denied string further on.
C23_DeniedNeverAccepted ==
    (call.fn = "is_article_url"
        /\ \/ call.arg.deny = "prefix"
           \/ call.arg.deny = "inside" /\ pub # "InfoLibre")
        => ~Accepts(call.res)

\* A link that only its denied path keeps from being an article was refused:
\* one with the string inside the path, and by InfoLibre one with the string
\* at the start.
C23_Witness ==
    /\ call.fn = "is_article_url"
    /\ call.arg.deny = (IF pub = "InfoLibre" THEN "prefix" ELSE "inside")
    /\ call.arg.pre = "" /\ call.arg.art /\ call.arg.date.k = "ok"
    /\ HostOk(pub, urljoin(pub, call.arg))
    /\ call.res[1] = "False"

\* InfoLibre has accepted a link with a denied string inside its path.
C23_InfoLibreAcceptsInside ==
    /\ call.fn = "is_article_url" /\ pub = "InfoLibre"
    /\ call.arg.deny = "inside" /\ Accepts(call.res)

\* C24 as stated: a link is accepted only if its host, resolved against the
\* base URL, is the publisher's domain or a subdomain of it.
C24_OnlyOwnHostAccepted ==
    (call.fn = "is_article_url" /\ Accepts(call.res))
        => urljoin(pub, call.arg).host \in {"www", "bare"}

\* The positions of the requests of one kind.
RequestsOf(kind) == {i \in 1..Len(requests) : requests[i].kind = kind}

\* C25: as many politeness delays have been served as article pages have
\* been requested, one before each, and none while only seeds have been
\* requested.
C25_OneDelayPerArticleFetch ==
    /\ sleeps = Cardinality(RequestsOf("article"))
    /\ RequestsOf("article") = {} => sleeps = 0

\* Two seeds and two articles have been requested, with two delays.
C25_Witness ==
    /\ Cardinality(RequestsOf("seed")) >= 2
    /\ Cardinality(RequestsOf("article")) = 2
    /\ sleeps = 2

\* Seeds are requested before articles, a record is appended only by a pass
\* that received its page, and no more pages are requested than there are
\* seeds plus max_news.
PhaseOrder ==
    /\ \A i, j \in 1..Len(requests) :
          (i < j /\ requests[i].kind = "article") => requests[j].kind = "article"
    /\ Len(data) <= Cardinality({i \in RequestsOf("article") : requests[i].ok})
    /\ Len(requests) <= Cardinality(SECTION_URLS(pub)) + max_news

\* C26 as stated: every crawl keeps the phase order, seeds then one pass per
\* URL of the truncated list, within the bound on requests, and reaches the
\* return of its list.
C26_PhaseOrderThenDone == []PhaseOrder /\ <>(pc = "done")

AllAnchors(page) == Filter(page, {"A", "H", "O"})

\* The links of the primary scan of a page: the scan of the regions the
\* class selects; for ElPlural, whose scan selects no region, the anchors of
\* article blocks and headings.
PrimaryLinks(p, page, t) ==
    FirstOccurrences(Accepted(p, IF p = "ElPlural" THEN Filter(page, {"A", "H"})
                                 ELSE ScanOrder(p, page), t))

NoRepeat(s) == \A i, j \in 1..Len(s) : s[i] = s[j] => i = j

\* C27 as stated: a primary scan that yields the floor or more is the whole
\* result; otherwise the primary links come first, in their order; no link
\* comes twice.
C27_AllAnchorsOnlyUnderFloor ==
    call.fn = "extract_links" =>
        LET prim == PrimaryLinks(pub, call.arg, now)
        IN  /\ Len(prim) >= PlausibilityFloor => call.res = prim
            /\ Len(call.res) >= Len(prim) /\ SubSeq(call.res, 1, Len(prim)) = prim
            /\ NoRepeat(call.res)

\* C27: in every class but ElPlural a primary scan that yields the floor or
\* more is the whole result, the primary links come first and no link comes
\* twice; OkDiario alone adds, under the floor, the links of all the anchors
\* of the page; ElPlural scans all the anchors of the page, always.
C27_FallbackOfOkDiarioOnly ==
    call.fn = "extract_links" =>
        LET prim == PrimaryLinks(pub, call.arg, now)
            all  == Accepted(pub, AllAnchors(call.arg), now)
        IN  /\ NoRepeat(call.res)
            /\ pub = "ElPlural" => call.res = FirstOccurrences(all)
            /\ pub = "OkDiario" =>
                  call.res = IF Len(prim) >= PlausibilityFloor THEN prim
                             ELSE FirstOccurrences(prim \o all)
            /\ pub \notin {"ElPlural", "OkDiario"} => call.res = prim

\* OkDiario found as many primary links as the floor on a page that holds a
\* new article link outside the primary region, and left that link out.
C27_Witness ==
    /\ call.fn = "extract_links" /\ pub = "OkDiario"
    /\ Len(PrimaryLinks(pub, call.arg, now)) = PlausibilityFloor
    /\ \E i \in 1..Len(call.arg) : call.arg[i] = Anchor(hNum(20), "O")
    /\ call.res = PrimaryLinks(pub, call.arg, now)

\* OkDiario found fewer and added the link of an anchor outside the region.
C27_FallbackRan ==
    /\ call.fn = "extract_links" /\ pub = "OkDiario"
    /\ Len(PrimaryLinks(pub, call.arg, now)) < PlausibilityFloor
    /\ Len(call.res) > Len(PrimaryLinks(pub, call.arg, now))

\* C28: no record's link is a seed URL of the publisher, and every record's
\* link has the publisher's host, no denied path and the article shape the
\* classifier asks for.
C28_NoSeedUrlEmitted ==
    \A k \in 1..Len(data) :
        LET u == LinkOf(data[k])
        IN  /\ \A i \in SECTION_URLS(pub) : u # SeedUrl(pub, i)
            /\ HostOk(pub, u) /\ ~Denied(pub, u) /\ MatchesArticleRe(pub, u)

\* A crawl has returned two records, of two links of the publisher's host,
\* neither of them a seed.
C28_Witness ==
    /\ pc = "done"
    /\ Len(data) = 2
    /\ LinkOf(data[1]) # LinkOf(data[2])
    /\ \A k \in 1..2 : LinkOf(data[k]).host = BaseHost(pub) /\ LinkOf(data[k]).art

\* Today's calendar day where ElPais reads it: datetime.now().date().
SystemToday == Day(now + UtcOffset(SystemZone))

\* C29: in ElPais every discovered pair, every article requested and every
\* record appended has a URL whose date segment is a calendar date, today's,
\* and the fecha of the pair and of the record is that date as dd-mm-yyyy.
C29_ElPaisOnlyTodayUrls ==
    pub = "ElPais" =>
        /\ \A i \in 1..Len(urls) :
              /\ urls[i].u.date = UD("ok", SystemToday)
              /\ urls[i].fecha = DDMMYYYY(urls[i].u.date.d)
        /\ \A i \in RequestsOf("article") : requests[i].target.date = UD("ok", SystemToday)
        /\ \A k \in 1..Len(data) :
              /\ data[k].link.date = UD("ok", SystemToday)
              /\ data[k].fecha = DDMMYYYY(data[k].link.date.d)

\* ElPais has appended a record, dated by its URL, after a seed page that
\* gave it one link to fetch.
C29_Witness ==
    /\ pub = "ElPais"
    /\ Len(data) >= 1
    /\ data[1].fecha = DDMMYYYY(2)
    /\ data[1].link.date = UD("ok", 2)
    /\ Len(urls) = 1

FailedSeeds == {i \in RequestsOf("seed") : ~requests[i].ok}

\* C30 as stated: in a crawler of several seeds a seed whose fetch failed is
\* the only one skipped: the seeds are requested in their order, the page of
\* a seed that arrives after a failed one is scanned and its links are in the
\* list; a crawl that ends with an empty list returns no record and has
\* requested no article and served no delay.
C30_FailedSeedSkipsOnlyItself ==
    pub \in MultiSeed =>
        /\ \A i \in RequestsOf("seed") : requests[i].target = i
        /\ (FailedSeeds # {} /\ last.kind = "seed" /\ last.ok) =>
              /\ pc # "raised"
              /\ Range(last.scan) \subseteq Range(Us(urls))
        /\ (pc = "done" /\ urls = <<>>) =>
              /\ data = <<>>
              /\ RequestsOf("article") = {}
              /\ sleeps = 0

====
